---- MODULE Spec2Model ----
(***************************************************************************)
(* The pomodoro timer of src/src/extension.ts as a state machine.          *)
(*                                                                         *)
(* The program is single threaded: every command handler and every timer   *)
(* callback runs to completion, so each is one action.  A handler is an    *)
(* operator from the world before it to the world after it; the world is   *)
(* the record of pomodoroState's mutable fields, currentTimer, the status  *)
(* bar text and the callbacks waiting in the host's timer queue.           *)
(*                                                                         *)
(* A pending timer carries `left`, the time still to pass before it may    *)
(* run.  A timer never runs early; once left = 0 it may run at any later   *)
(* moment (the event loop can be late), in creation order among the timers *)
(* of one kind.  The clock is coarser than the one-second timers, so that  *)
(* a session of 90 minutes stays within reach.                             *)
(***************************************************************************)
EXTENDS Integers, Sequences, FiniteSets

\* ---- pomodoroState's fixed fields ----
totalDuration == 90 * 60 * 1000
intervalMin == 3 * 60 * 1000
intervalMax == 5 * 60 * 1000
restDuration == 10 * 1000

\* ---- delays and literals of the code ----
StatusTickDelay == 1000
RestNoticeDelay == 3000
CountdownPeriod == 1000
CountdownStart == 10

\* ---- bounds of the model ----
\* Math.random() is sampled at k / RandomResolution, k in 0 .. RandomResolution-1
RandomResolution == 2
\* the clock is read every 30 s up to ShortHorizon; one long step of 90 min
\* (the host suspended, or left alone) may be taken up to MaxNow
ShortHorizon == 360000
MaxNow == 5760000
\* at most MaxArmed rest triggers and MaxArmed status ticks are pending, and
\* at most MaxInFlight rest notifications, countdowns, re-arm callbacks and
\* completion dialogs each
MaxArmed == 2
MaxInFlight == 1

ClockSteps == {30 * 1000, 90 * 60 * 1000}

Horizon(d) == IF d = 30 * 1000 THEN ShortHorizon ELSE MaxNow

RandomValues == 0 .. (RandomResolution - 1)

Undefined == 0

Selections == {"again", "close", "dismissed"}

VARIABLES
    isActive,      \* pomodoroState.isActive
    isPaused,      \* pomodoroState.isPaused
    startTime,     \* pomodoroState.startTime
    pausedTime,    \* pomodoroState.pausedTime
    currentTimer,  \* handle of the rest trigger armed last, or Undefined
    text,          \* statusBarItem.text / tooltip, as the values rendered
    restTimers,    \* pending rest triggers: set of [id, left]
    statusTicks,   \* pending 1 s status ticks: sequence of left
    restNotices,   \* pending 3 s rest notifications: sequence of left
    countdowns,    \* live rest countdown intervals: sequence of
                   \* [countdown, left, ticks, interrupted]; ticks counts the
                   \* runs of the callback so far, interrupted records a pause
                   \* or reset of the live session since the countdown began
    rearms,        \* pending setTimeout(.., 0) callbacks of a finished countdown
    dialogs,       \* completion dialogs not yet answered
    now,           \* Date.now()
    out,           \* what the last step showed to the user
    runTime,       \* time the live session has spent Running (0 without one)
    sinceBreak     \* Running time since the session started or since the
                   \* scheduler was last re-armed after a rest break

vars == <<isActive, isPaused, startTime, pausedTime, currentTimer, text,
          restTimers, statusTicks, restNotices, countdowns, rearms, dialogs,
          now, out, runTime, sinceBreak>>

\* the world a handler starts in
Cur == [isActive |-> isActive, isPaused |-> isPaused, startTime |-> startTime,
        pausedTime |-> pausedTime, currentTimer |-> currentTimer, text |-> text,
        restTimers |-> restTimers, statusTicks |-> statusTicks,
        restNotices |-> restNotices, countdowns |-> countdowns,
        rearms |-> rearms, dialogs |-> dialogs, now |-> now, out |-> {}]

Running(w) == w.isActive /\ ~w.isPaused

Show(w, msg) == [w EXCEPT !.out = @ \cup {msg}]

\* ---- arithmetic of the renderer ----
jsRem(a, b) == IF a >= 0 THEN a % b ELSE -((-a) % b)

Minutes(remaining) == remaining \div (1000 * 60)

Seconds(remaining) == jsRem(remaining, 1000 * 60) \div 1000

\* the text is kept as its kind and whether the time it shows is above 0:00
Shown(remaining) == Minutes(remaining) > 0 \/ Seconds(remaining) > 0

IdleText == [kind |-> "idle", positive |-> TRUE]

\* ---- getElapsedTime ----
getElapsedTime(w) ==
    IF w.isPaused
    THEN w.pausedTime
    ELSE w.pausedTime + (w.now - w.startTime)

\* ---- clearTimeout(currentTimer); currentTimer = undefined ----
clearCurrentTimer(w) ==
    IF w.currentTimer # Undefined
    THEN [w EXCEPT !.restTimers = {t \in @ : t.id # w.currentTimer},
                   !.currentTimer = Undefined]
    ELSE w

RECURSIVE updateStatusBar(_)
RECURSIVE endPomodoro(_)

endPomodoro(w) ==
    LET w1 == [w EXCEPT !.isActive = FALSE, !.isPaused = FALSE]
        w2 == clearCurrentTimer(w1)
        w3 == updateStatusBar(w2)
    IN  Show([w3 EXCEPT !.dialogs = @ + 1], "completed")

updateStatusBar(w) ==
    IF ~w.isActive
    THEN [w EXCEPT !.text = IdleText]
    ELSE LET remaining == totalDuration - getElapsedTime(w) IN
         IF w.isPaused
         THEN [w EXCEPT !.text = [kind |-> "paused",
                                  positive |-> Shown(remaining)]]
         ELSE IF remaining <= 0
         THEN endPomodoro(w)
         ELSE [w EXCEPT !.text = [kind |-> "running",
                                  positive |-> Shown(remaining)],
                        !.statusTicks = Append(@, StatusTickDelay)]

\* ---- scheduleNextBreak ----
\* randomInterval scaled by intervalMax instead of the width of the range
randomInterval_scaledByMax(r) ==
    (r * intervalMax) \div RandomResolution + intervalMin

randomInterval(r) ==
    (r * (intervalMax - intervalMin)) \div RandomResolution + intervalMin

FreshTimer(w) ==
    CHOOSE i \in 1 .. (Cardinality(w.restTimers) + 2) :
        /\ i # w.currentTimer
        /\ \A t \in w.restTimers : t.id # i
        /\ \A j \in 1 .. (i - 1) :
              j = w.currentTimer \/ \E t \in w.restTimers : t.id = j

armRestTimer(w, r) ==
    LET id == FreshTimer(w) IN
    [w EXCEPT !.currentTimer = id,
              !.restTimers = @ \cup {[id |-> id, left |-> randomInterval(r)]}]

\* scheduleNextBreak without its first line
scheduleNextBreak_unguarded(w, r) ==
    IF getElapsedTime(w) >= totalDuration
    THEN endPomodoro(w)
    ELSE armRestTimer(w, r)

scheduleNextBreak(w, r) ==
    IF ~w.isActive \/ w.isPaused
    THEN w
    ELSE IF getElapsedTime(w) >= totalDuration
    THEN endPomodoro(w)
    ELSE armRestTimer(w, r)

\* ---- the lifecycle ----
\* startPomodoro without its call of scheduleNextBreak
startPomodoro_noSchedule(w, r) ==
    LET w1 == [w EXCEPT !.isActive = TRUE, !.isPaused = FALSE,
                        !.startTime = w.now, !.pausedTime = 0]
        w2 == updateStatusBar(w1)
    IN  Show(w2, "started")

startPomodoro(w, r) ==
    LET w1 == [w EXCEPT !.isActive = TRUE, !.isPaused = FALSE,
                        !.startTime = w.now, !.pausedTime = 0]
        w2 == updateStatusBar(w1)
        w3 == scheduleNextBreak(w2, r)
    IN  Show(w3, "started")

\* pausePomodoro without its first line
pausePomodoro_unguarded(w) ==
    LET w1 == [w EXCEPT !.isPaused = TRUE,
                        !.pausedTime = @ + (w.now - w.startTime)]
        w2 == clearCurrentTimer(w1)
        w3 == updateStatusBar(w2)
    IN  Show(w3, "paused")

\* pausePomodoro with "=" for "+=": the time banked before is dropped
pausePomodoro_overwrite(w) ==
    IF ~w.isActive \/ w.isPaused
    THEN w
    ELSE LET w1 == [w EXCEPT !.isPaused = TRUE,
                             !.pausedTime = w.now - w.startTime]
             w2 == clearCurrentTimer(w1)
             w3 == updateStatusBar(w2)
         IN  Show(w3, "paused")

pausePomodoro(w) ==
    IF ~w.isActive \/ w.isPaused
    THEN w
    ELSE LET w1 == [w EXCEPT !.isPaused = TRUE,
                             !.pausedTime = @ + (w.now - w.startTime)]
             w2 == clearCurrentTimer(w1)
             w3 == updateStatusBar(w2)
         IN  Show(w3, "paused")

\* resumePomodoro without its call of scheduleNextBreak
resumePomodoro_noRearm(w, r) ==
    IF ~w.isActive \/ ~w.isPaused
    THEN w
    ELSE LET w1 == [w EXCEPT !.isPaused = FALSE, !.startTime = w.now]
             w2 == updateStatusBar(w1)
         IN  Show(w2, "resumed")

\* resumePomodoro that leaves startTime as it was
resumePomodoro_keepStart(w, r) ==
    IF ~w.isActive \/ ~w.isPaused
    THEN w
    ELSE LET w1 == [w EXCEPT !.isPaused = FALSE]
             w2 == updateStatusBar(w1)
             w3 == scheduleNextBreak(w2, r)
         IN  Show(w3, "resumed")

resumePomodoro(w, r) ==
    IF ~w.isActive \/ ~w.isPaused
    THEN w
    ELSE LET w1 == [w EXCEPT !.isPaused = FALSE, !.startTime = w.now]
             w2 == updateStatusBar(w1)
             w3 == scheduleNextBreak(w2, r)
         IN  Show(w3, "resumed")

\* stopPomodoro that leaves isPaused as it was
stopPomodoro_keepPaused(w) ==
    LET w1 == [w EXCEPT !.isActive = FALSE]
        w2 == clearCurrentTimer(w1)
    IN  updateStatusBar(w2)

stopPomodoro(w) ==
    LET w1 == [w EXCEPT !.isActive = FALSE, !.isPaused = FALSE]
        w2 == clearCurrentTimer(w1)
    IN  updateStatusBar(w2)

resetPomodoro(w) ==
    LET w1 == stopPomodoro(w)
        w2 == [w1 EXCEPT !.startTime = 0, !.pausedTime = 0]
        w3 == updateStatusBar(w2)
    IN  Show(w3, "reset")

\* ---- the rest break ----
triggerRestBreak(w) ==
    IF ~w.isActive \/ w.isPaused
    THEN w
    ELSE Show([w EXCEPT !.restNotices = Append(@, RestNoticeDelay)], "rest")

startRestCountdown(w) ==
    [w EXCEPT !.countdowns =
        Append(@, [countdown |-> CountdownStart, left |-> CountdownPeriod,
                   ticks |-> 0, interrupted |-> FALSE])]

\* one run of the setInterval callback of the oldest countdown
countdownTick(w) ==
    LET c == Head(w.countdowns)
        w1 == [w EXCEPT !.countdowns = Tail(@)]
    IN  IF ~w.isActive \/ w.isPaused
        THEN w1
        ELSE IF c.countdown > 0
        THEN Show([w1 EXCEPT !.countdowns =
                      Append(@, [c EXCEPT !.countdown = @ - 1,
                                          !.left = CountdownPeriod,
                                          !.ticks = @ + 1])], "resting")
        ELSE Show(Show([w1 EXCEPT !.rearms = @ + 1], "resting"), "breakOver")

\* ---- the commands ----
\* toggleCommand whose second branch restarts instead of resuming
toggleCommand_restart(w, r) ==
    IF w.isActive /\ ~w.isPaused
    THEN pausePomodoro(w)
    ELSE startPomodoro(w, r)

toggleCommand(w, r) ==
    IF w.isActive /\ ~w.isPaused
    THEN pausePomodoro(w)
    ELSE IF w.isPaused
    THEN resumePomodoro(w, r)
    ELSE startPomodoro(w, r)

\* restCommand that checks isActive only and shows the notification itself
restCommand_activeOnly(w) ==
    IF w.isActive
    THEN Show([w EXCEPT !.restNotices = Append(@, RestNoticeDelay)], "rest")
    ELSE w

restCommand(w) ==
    IF w.isActive /\ ~w.isPaused
    THEN triggerRestBreak(w)
    ELSE w

resetCommand(w) == resetPomodoro(w)

\* ---- the timer callbacks ----
restTimerCallback(w, t) ==
    LET w1 == [w EXCEPT !.restTimers = @ \ {t}]
    IN  IF w1.isActive /\ ~w1.isPaused
        THEN triggerRestBreak(w1)
        ELSE w1

restNoticeCallback(w) ==
    startRestCountdown([w EXCEPT !.restNotices = Tail(@)])

rearmCallback(w, r) ==
    scheduleNextBreak([w EXCEPT !.rearms = @ - 1], r)

statusTickCallback(w) ==
    LET w1 == [w EXCEPT !.statusTicks = Tail(@)]
    IN  IF w1.isActive /\ ~w1.isPaused
        THEN updateStatusBar(w1)
        ELSE w1

dialogCallback(w, selection, r) ==
    LET w1 == [w EXCEPT !.dialogs = @ - 1]
    IN  IF selection = "again"
        THEN startPomodoro(w1, r)
        ELSE w1

\* ---- the step relation ----
Fits(w) ==
    /\ Cardinality(w.restTimers) <= MaxArmed
    /\ Len(w.statusTicks) <= MaxArmed
    /\ Len(w.restNotices) <= MaxInFlight
    /\ Len(w.countdowns) <= MaxInFlight
    /\ w.rearms <= MaxInFlight
    /\ w.dialogs <= MaxInFlight

Commit(w) ==
    /\ Fits(w)
    /\ isActive' = w.isActive
    /\ isPaused' = w.isPaused
    /\ startTime' = w.startTime
    /\ pausedTime' = w.pausedTime
    /\ currentTimer' = w.currentTimer
    /\ text' = w.text
    /\ restTimers' = w.restTimers
    /\ statusTicks' = w.statusTicks
    /\ restNotices' = w.restNotices
    /\ countdowns' = IF isActive /\ w.out \cap {"paused", "reset"} # {}
                     THEN [i \in DOMAIN w.countdowns |->
                              [w.countdowns[i] EXCEPT !.interrupted = TRUE]]
                     ELSE w.countdowns
    /\ rearms' = w.rearms
    /\ dialogs' = w.dialogs
    /\ out' = w.out
    /\ now' = now
    /\ runTime' = IF "started" \in w.out \/ ~w.isActive THEN 0 ELSE runTime
    /\ sinceBreak' = IF "started" \in w.out \/ ~w.isActive \/ w.rearms < rearms
                     THEN 0
                     ELSE sinceBreak

Init ==
    /\ isActive = FALSE
    /\ isPaused = FALSE
    /\ startTime = 0
    /\ pausedTime = 0
    /\ currentTimer = Undefined
    /\ text = IdleText
    /\ restTimers = {}
    /\ statusTicks = <<>>
    /\ restNotices = <<>>
    /\ countdowns = <<>>
    /\ rearms = 0
    /\ dialogs = 0
    /\ now = 0
    /\ out = {}
    /\ runTime = 0
    /\ sinceBreak = 0

Toggle == \E r \in RandomValues : Commit(toggleCommand(Cur, r))

Rest == Commit(restCommand(Cur))

Reset == Commit(resetCommand(Cur))

FireRestTimer ==
    \E t \in restTimers :
        /\ t.left = 0
        /\ Commit(restTimerCallback(Cur, t))

FireRestNotice ==
    /\ restNotices # <<>>
    /\ Head(restNotices) = 0
    /\ Commit(restNoticeCallback(Cur))

FireCountdown ==
    /\ countdowns # <<>>
    /\ Head(countdowns).left = 0
    /\ Commit(countdownTick(Cur))

FireRearm ==
    /\ rearms > 0
    /\ \E r \in RandomValues : Commit(rearmCallback(Cur, r))

FireStatusTick ==
    /\ statusTicks # <<>>
    /\ Head(statusTicks) = 0
    /\ Commit(statusTickCallback(Cur))

AnswerDialog ==
    /\ dialogs > 0
    /\ \E s \in Selections, r \in RandomValues :
          Commit(dialogCallback(Cur, s, r))

Less(x, d) == IF x > d THEN x - d ELSE 0

Tick ==
    \E d \in ClockSteps :
        /\ now + d <= Horizon(d)
        /\ now' = now + d
        /\ restTimers' = {[id |-> t.id, left |-> Less(t.left, d)] : t \in restTimers}
        /\ statusTicks' = [i \in DOMAIN statusTicks |-> Less(statusTicks[i], d)]
        /\ restNotices' = [i \in DOMAIN restNotices |-> Less(restNotices[i], d)]
        /\ countdowns' = [i \in DOMAIN countdowns |->
                             [countdowns[i] EXCEPT !.left = Less(@, d)]]
        /\ runTime' = IF isActive /\ ~isPaused THEN runTime + d ELSE runTime
        /\ sinceBreak' = IF isActive /\ ~isPaused
                         THEN sinceBreak + d
                         ELSE sinceBreak
        /\ out' = {}
        /\ UNCHANGED <<isActive, isPaused, startTime, pausedTime, currentTimer,
                       text, rearms, dialogs>>

Next ==
    \/ Toggle
    \/ Rest
    \/ Reset
    \/ FireRestTimer
    \/ FireRestNotice
    \/ FireCountdown
    \/ FireRearm
    \/ FireStatusTick
    \/ AnswerDialog
    \/ Tick

Spec == Init /\ [][Next]_vars

\* The program with its transitions pause() and resume() also called directly,
\* in any state (the toggle command calls each only in its valid state).
PauseCall == Commit(pausePomodoro(Cur))

ResumeCall == \E r \in RandomValues : Commit(resumePomodoro(Cur, r))

NextAPI ==
    \/ Next
    \/ PauseCall
    \/ ResumeCall

SpecAPI == Init /\ [][NextAPI]_vars

\* ======================= the properties =======================
ElapsedTime == getElapsedTime(Cur)

IsIdle == ~isActive /\ ~isPaused
IsRunning == isActive /\ ~isPaused
IsPausedState == isActive /\ isPaused

SameSession == isActive /\ isActive' /\ "started" \notin out'

\* C1: while a session is live (Running or Paused) its elapsed time, as
\* getElapsedTime computes it, is the time the session has spent Running
\* since its start; within a session it never decreases, and it stays the
\* same over every step taken while Paused.
C1_ElapsedIsRunningTime ==
    [][ /\ (isActive' => ElapsedTime' = runTime')
        /\ (SameSession => ElapsedTime' >= ElapsedTime)
        /\ (SameSession /\ isPaused /\ isPaused' => ElapsedTime' = ElapsedTime)
      ]_vars

\* start at 0, pause at 60000, resume at 120000, pause at 150000: 90000
C1_Witness ==
    /\ "paused" \in out
    /\ now = 150000 /\ startTime = 120000
    /\ pausedTime = 90000 /\ ElapsedTime = 90000

\* C2: right after reset() the state is Idle and getElapsedTime is 0.
C2_ResetGivesZeroElapsed ==
    "reset" \in out => IsIdle /\ ElapsedTime = 0

Lifecycle(w) == w.out \cap {"started", "paused", "resumed"}

C4_PausedImpliesActive == isPaused => isActive

C4_Witness == isPaused /\ isActive /\ dialogs > 0

\* C5: at most one rest trigger is armed at any moment.
C5_AtMostOneRestTrigger == Cardinality(restTimers) <= 1

\* C6: whenever the session is not Running, no rest trigger is pending.
C6_NoTriggerUnlessRunning == ~IsRunning => restTimers = {}

\* C7: when the session completes, no rest trigger is armed.
C7_NoTriggerOnceCompleted ==
    "completed" \in out => ~isActive /\ ~isPaused /\ restTimers = {}

\* C8: a rest break begins only from Running; a rest trigger that fires, or
\* a rest command issued, while the session is not Running changes no field
\* of the session, shows nothing and starts neither notification nor
\* countdown: the command returns the world as it was, the trigger the world
\* less itself.
C8_RestOnlyWhenRunning ==
    /\ ("rest" \in out => IsRunning /\ restNotices # <<>>)
    /\ (~IsRunning =>
          /\ restCommand(Cur) = Cur
          /\ \A t \in restTimers :
                restTimerCallback(Cur, t) = [Cur EXCEPT !.restTimers = @ \ {t}])

\* a rest trigger is due, and fires, while the session is Paused
C8_Witness == IsPausedState /\ \E t \in restTimers : t.left = 0

\* C9: pause() outside Running and resume() outside Paused change nothing
\* and show nothing: each returns the world it was called in.
C9_InvalidTransitionsAreNoOps ==
    /\ (~IsRunning => pausePomodoro(Cur) = Cur)
    /\ (~IsPausedState =>
          \A r \in RandomValues : resumePomodoro(Cur, r) = Cur)

\* a paused session whose clock has moved on since it was resumed last, with
\* a status tick still pending: pause() is called there, and resume() in the
\* Running state before it
C9_Witness ==
    /\ IsPausedState /\ out = {}
    /\ now > startTime /\ pausedTime > 0 /\ statusTicks # <<>>

\* C10: every rest trigger is armed with a delay in [intervalMin, intervalMax].
C10_DelayInRange ==
    [][ now' = now =>
          \A t \in restTimers' \ restTimers :
              t.left >= intervalMin /\ t.left <= intervalMax
      ]_vars

\* re-armed after a countdown (the one arming that shows nothing), with the
\* largest sample of the random source
C10_Witness ==
    /\ out = {} /\ IsRunning /\ runTime > 0
    /\ \E t \in restTimers :
          t.id = currentTimer /\ t.left = randomInterval(RandomResolution - 1)

\* C11: a pause keeps the elapsed time, and a resume changes neither
\* pausedTime nor the elapsed time: pause() followed by resume() at the same
\* instant leaves the accumulated elapsed time as it was.
C11_PauseResumeKeepsElapsed ==
    [][ /\ ("paused" \in out' => ElapsedTime' = ElapsedTime)
        /\ ("resumed" \in out' =>
              pausedTime' = pausedTime /\ ElapsedTime' = ElapsedTime)
      ]_vars

\* a session started at 0, paused at `now` and resumed at the same instant
C11_Witness ==
    /\ "resumed" \in out /\ IsRunning
    /\ now > 0 /\ pausedTime = now /\ startTime = now

\* a rest trigger whose delay has run out: its callback is ready to run
TriggerDue == \E t \in restTimers : t.left = 0

\* a rest-break sequence is under way: its notification, its countdown or
\* the callback that re-arms the scheduler after it
BreakInFlight == restNotices # <<>> \/ countdowns # <<>> \/ rearms > 0

\* Running time since the session started, was last resumed, or the
\* scheduler was re-armed after a rest break
SegmentTime ==
    IF now - startTime < sinceBreak THEN now - startTime ELSE sinceBreak

\* C12 as stated: the Running time since the session start or since the
\* previous rest break never exceeds intervalMax unless a rest break has been
\* triggered (its trigger is due or the break is under way), also when the
\* session was paused and resumed in between.
C12_BreakEveryIntervalMax ==
    IsRunning /\ sinceBreak > intervalMax => TriggerDue \/ BreakInFlight

\* C12, amended: the Running time since the session start, since the last
\* resume or since the previous rest break never exceeds intervalMax unless
\* a rest break has been triggered (its trigger is due or the break is under
\* way).
C12_BreakEveryIntervalMaxOfSegment ==
    IsRunning /\ SegmentTime > intervalMax => TriggerDue \/ BreakInFlight

\* a session that was paused and resumed, more than intervalMax into the
\* Running segment after the resume
C12_Witness ==
    /\ IsRunning /\ pausedTime > 0
    /\ now <= ShortHorizon /\ now - startTime > intervalMax
    /\ sinceBreak > now - startTime

\* C13: a countdown during which the live session was paused or reset is
\* aborted: it never shows "break over" and never queues the callback that
\* re-arms the scheduler, whatever happened after the pause or reset.
C13_InterruptedCountdownAborts ==
    [][ "breakOver" \in out' \/ rearms' > rearms
            => ~Head(countdowns).interrupted ]_vars

\* C14: startPomodoro runs only when the session is Idle or Completed, never
\* while it is Running or Paused.
C14_StartOnlyWhenNotActive ==
    [][ "started" \in out' => ~isActive ]_vars

\* C15: the status bar never shows an active session (Running or Paused)
\* with a remaining time of zero or less: the renderer completes the session
\* instead.
C15_NoActiveSessionShownAtZero ==
    isActive => text.kind # "idle" /\ text.positive

\* C16: a countdown that is not aborted lasts restDuration: of the runs of
\* its one-second callback, the one that shows "break over" and queues the
\* re-arming of the scheduler is the 10th, not an earlier or a later one.
C16_BreakOverOnTenthTick ==
    [][ "resting" \in out' =>
          ( "breakOver" \in out' /\ rearms' = rearms + 1
              <=> (Head(countdowns).ticks + 1) * CountdownPeriod = restDuration )
      ]_vars

\* C17: at every moment at most one status-tick callback is pending (so a
\* tick armed in one Running segment is gone when a later segment arms its
\* own).
C17_AtMostOneStatusTick ==
    Len(statusTicks) <= 1

\* C18: in every Running state a rest trigger is armed or a rest-break
\* sequence is in flight (the rest notification, a live countdown or the
\* callback that re-arms the scheduler).
C18_NoLostWakeUp ==
    IsRunning => restTimers # {} \/ BreakInFlight

\* Running with no rest trigger armed: the trigger has fired and only the
\* rest notification it showed is pending
C18_Witness ==
    /\ IsRunning /\ restTimers = {}
    /\ restNotices # <<>> /\ countdowns = <<>> /\ rearms = 0

\* C19: at most one rest-break sequence (notification, then countdown, then
\* the re-arming callback) is in flight at any time.
C19_AtMostOneBreakInFlight ==
    Len(restNotices) + Len(countdowns) + rearms <= 1

\* the world w a handler returns from the current state has run
\* endPomodoro at most once, and if so from a live session: one dialog more
\* than the handler found and took away, and the session not active
CompletesOnce(w, answered) ==
    "completed" \in w.out =>
        /\ isActive /\ ~w.isActive
        /\ w.dialogs = dialogs - answered + 1
        /\ (isPaused => "resumed" \in w.out)

\* C20: completion happens at most once per started session and only from
\* Running: a command or callback that completes (the toggle, a status tick,
\* the re-arming after a countdown, a restart) is run in a live session,
\* runs endPomodoro once (one dialog) and leaves the session not active, so
\* no further completion can follow before the next startPomodoro; when it
\* was run in Paused it is the resume that completed.
C20_CompletionOncePerSession ==
    /\ \A r \in RandomValues : CompletesOnce(toggleCommand(Cur, r), 0)
    /\ statusTicks # <<>> => CompletesOnce(statusTickCallback(Cur), 0)
    /\ rearms > 0 =>
          \A r \in RandomValues : CompletesOnce(rearmCallback(Cur, r), 0)
    /\ dialogs > 0 =>
          \A r \in RandomValues : CompletesOnce(dialogCallback(Cur, "again", r), 1)

\* a session completed by the resume of a session paused at
\* elapsed >= totalDuration
C20_Witness ==
    /\ {"completed", "resumed"} \subseteq out
    /\ ~isActive /\ dialogs = 1 /\ pausedTime >= totalDuration

====
